---- MODULE Spec2Model ----
(***************************************************************************)
(* Model of main.py: the SM-2 scheduler (schedule_next), the progress      *)
(* store (load_progress / save_progress over progress.json) and the        *)
(* handlers that mutate them (Set Next Review, Mark as Known / Unknown,    *)
(* Clear All Progress).                                                    *)
(*                                                                         *)
(* main.py is a Streamlit script: every user interaction executes the      *)
(* script from its first line, so every run first rebinds progress_data,   *)
(* known_terms and scheduler from progress.json (lines 72-74) and then     *)
(* executes the handler of at most one button.  A run is modelled as two   *)
(* steps: load_progress (pc "idle" -> "loaded"), which is the script down  *)
(* to line 239 (the load and the sidebar filters), and one handler         *)
(* (pc "loaded" -> "idle").  The values of the widgets live in the session *)
(* and last from run to run; the user changes them between two runs.       *)
(*                                                                         *)
(* Numbers.  The ease factor "ef" is a Python float.  Every value it takes *)
(* is a multiple of 0.01 up to the rounding of float addition, so it is    *)
(* modelled as [cent, under]: cent is the value in hundredths (2.5 is 250, *)
(* 1.3 is 130) and under says that the float lies just below cent/100      *)
(* rather than on or just above it.                                        *)
(*                                                                         *)
(* Time.  A reading of the clock is a number of ticks, TicksPerDay of them *)
(* to the day.  isoformat() writes a reading as text of fixed width,       *)
(* followed by ".ffffff" unless the microsecond is 0; the model writes the *)
(* day number in DateWidth digits, followed by the position within the day *)
(* unless it is 0.  next_due is such a text and is compared as text.       *)
(***************************************************************************)
EXTENDS Integers, Sequences, FiniteSets, TLC

VARIABLES
    file,           \* progress.json on disk
    progress_data,  \* the dict bound at line 72
    known_terms,    \* the set bound at line 73
    scheduler,      \* the dict bound at line 74
    now,            \* datetime.now(), in ticks
    pc,             \* "idle": between two runs; "loaded": lines 72-74 done
    last,           \* the latest operation, its arguments and how it ended
    streak,         \* history: per term, completed successes in a row
    fives,          \* history: per term, see Fives
    calls,          \* history: number of schedule_next calls so far
    durable,        \* history: the data of the latest completed save
    due_at,         \* history: per term, the tick its latest review set as due
    terms_list,     \* the catalog, terms.json as loaded at lines 42-58
    selected_tags,  \* the multiselect of line 187
    selected_week,  \* the selectbox of line 220
    due_only,       \* the checkbox of line 232
    filtered_terms, \* the list bound at lines 234-239 in the latest run
    quiz_current_term,   \* session state, lines 297-306
    quiz_correct_count,
    quiz_total_asked,
    quiz_checked,
    quiz_ratio,
    user_answer,    \* the text area of line 433, as the latest check read it
    draw            \* history: the latest term drawn and what followed it

filters == <<selected_tags, selected_week, due_only>>

quiz == <<quiz_current_term, quiz_correct_count, quiz_total_asked, quiz_checked, quiz_ratio,
          user_answer, draw>>

vars == <<file, progress_data, known_terms, scheduler, now, pc, last, streak, fives, calls,
          durable, due_at, terms_list, quiz, filters, filtered_terms>>

(***************************************************************************)
(* Bounds of the model.                                                    *)
(***************************************************************************)
MaxCalls == 3
MaxDeepCalls == 9
MaxClockCalls == 2
MaxNow == 3
TicksPerDay == 2
MaxSelectCalls == 1
MaxWeek == 1
MaxLen == 2
MaxAsked == 2
MaxQuizCalls == 2

Terms == {"A", "B"}

\* The slider of line 401-404: min_value=0, max_value=5.
MinQuality == 0
MaxQuality == 5
Qualities == MinQuality..MaxQuality

\* Integers a caller of schedule_next(term, quality) may pass: the function
\* takes any integer.
AnyQualities == (MinQuality - 1)..(MaxQuality + 1)

(***************************************************************************)
(* Python dicts are functions on the set of their keys.                    *)
(***************************************************************************)
EmptyDict == [t \in {} |-> 0]

Put_Alone(d, k, v) == [x \in {k} |-> v]

Put(d, k, v) == [x \in (DOMAIN d) \cup {k} |-> IF x = k THEN v ELSE d[x]]

Range(s) == {s[i] : i \in DOMAIN s}

\* list(known_terms): every element once, in an order the program does not
\* choose.
ListsOf(S) == {s \in [1..Cardinality(S) -> S] : Range(s) = S}

EmptyProgress == [known_terms |-> <<>>, scheduler |-> EmptyDict]

Min(S) == CHOOSE x \in S : \A y \in S : x <= y

(***************************************************************************)
(* JSON.  json.dump writes a list as an array, in the order of the list; a *)
(* dict as an object, one member for each key; an int as its digits; a     *)
(* float as repr(float), the shortest decimal that reads back as the same  *)
(* float: the hundredths themselves ("2.6") when the float is the one      *)
(* nearest to them, a long tail ("2.5999999999999996") when it lies under  *)
(* them.  json.load reads each of them back.                               *)
(***************************************************************************)
FloatRepr_TwoPlaces(x) == [whole |-> x.cent \div 100, places |-> x.cent % 100, tail |-> FALSE]

\* repr(ef) as json.dump writes it.
FloatRepr(x) == [whole |-> x.cent \div 100, places |-> x.cent % 100, tail |-> x.under]

\* float(text) as json.load reads it.
FloatOf(text) == [cent |-> text.whole * 100 + text.places, under |-> text.tail]

\* One member of the "scheduler" object: the key and the object of the entry.
JsonMember(k, e) ==
    <<k, [interval |-> e.interval, repetitions |-> e.repetitions,
          ef |-> FloatRepr(e.ef), next_due |-> e.next_due]>>

\* json.dump(data, f), line 70: the document written.
JsonDump(data) ==
    [known_terms |-> data.known_terms,
     scheduler |-> {JsonMember(k, data.scheduler[k]) : k \in DOMAIN data.scheduler}]

\* json.load(f), line 64: the dict read from a document.
JsonLoad(doc) ==
    [known_terms |-> doc.known_terms,
     scheduler |->
        [k \in {m[1] : m \in doc.scheduler} |->
            LET o == (CHOOSE m \in doc.scheduler : m[1] = k)[2]
            IN  [interval |-> o.interval, repetitions |-> o.repetitions,
                 ef |-> FloatOf(o.ef), next_due |-> o.next_due]]]

EmptyDocument == [known_terms |-> <<>>, scheduler |-> {}]

(***************************************************************************)
(* progress.json.  kind is "absent" (no such file), "json" (a complete     *)
(* document, data), "truncated" (zero bytes: open(..., "w") has emptied    *)
(* the file and nothing was written) or "partial" (a proper prefix of a    *)
(* document).                                                              *)
(***************************************************************************)
FileAbsent == [kind |-> "absent", data |-> EmptyDocument]

FileJson(doc) == [kind |-> "json", data |-> doc]

FileTruncated == [kind |-> "truncated", data |-> EmptyDocument]

FilePartial == [kind |-> "partial", data |-> EmptyDocument]

\* json.load(f): a complete document parses; an empty file or a proper prefix
\* of a document raises json.JSONDecodeError.
Parses(f) == f.kind = "json"

\* Ways a call of save_progress can end: "ok"; open() raises and the file is
\* as it was; the file is opened (and so emptied) and json.dump is stopped
\* before its first write, or after some but not all of its writes.
SaveOutcomes == {"ok", "open_failed", "truncated", "partial"}

\* save_progress(data): the file it leaves.
save_progress(old, data, outcome) ==
    CASE outcome = "ok" -> FileJson(JsonDump(data))
      [] outcome = "open_failed" -> old
      [] outcome = "truncated" -> FileTruncated
      [] outcome = "partial" -> FilePartial

Result_Swallowed(outcome) == "ok"

\* save_progress has no except clause and no caller of it has one: whatever
\* open or json.dump raises leaves the handler as an exception.
Result(outcome) == IF outcome = "ok" THEN "ok" ELSE "error"

(***************************************************************************)
(* Python floats that are a whole number of hundredths, up to rounding.    *)
(***************************************************************************)
Float(cent, under) == [cent |-> cent, under |-> under]

\* The literals 2.5 (line 82) and 1.3 (line 91), in hundredths.  2.5 is a
\* float; the float nearest 1.3 is 1.3000000000000000444.
DefaultEfCent == 250
MinEfCent == 130
DefaultEf == Float(DefaultEfCent, FALSE)
MinEf == Float(MinEfCent, FALSE)

\* x >= y for two floats of the model.
FloatGeq(x, y) == x.cent > y.cent \/ (x.cent = y.cent /\ (y.under \/ ~x.under))

\* 0.1 - (5 - quality) * (0.08 + (5 - quality) * 0.02), in hundredths.  In
\* float arithmetic it is 0.0 for quality 4 (0.08 + 0.02 is 0.1).
EfDelta(quality) == 10 - (5 - quality) * (8 + (5 - quality) * 2)

\* ef + delta in float arithmetic: adding 0.0 changes nothing; any other sum
\* is rounded, to one side or the other of the exact hundredth.
FloatAdd(ef, delta) ==
    IF delta = 0 THEN {ef}
    ELSE {Float(ef.cent + delta, under) : under \in BOOLEAN}

MaxWithMinEf_NoFloor(x) == x

\* max(1.3, x): the first argument unless x is greater.
MaxWithMinEf(x) == IF x.cent > MinEfCent THEN x ELSE MinEf

\* Line 91: the values max(1.3, ef + (...)) can take.
EfAfter(ef, quality) == {MaxWithMinEf(x) : x \in FloatAdd(ef, EfDelta(quality))}

\* Line 98, int(interval * ef).  The product is rounded to a float and int
\* drops its fraction.  Where interval * cent / 100 is no whole number the
\* result is its floor; where it is the whole number N, the result is N,
\* unless the float lies under cent/100: the product is then just under N and
\* is rounded either to N or to a float below it.
IntervalTimesEf(interval, ef) ==
    LET p == interval * ef.cent
    IN  IF ef.under /\ p > 0 /\ p % 100 = 0
        THEN {p \div 100 - 1, p \div 100}
        ELSE {p \div 100}

(***************************************************************************)
(* SM-2, lines 82-98.                                                      *)
(***************************************************************************)
FirstInterval == 1
SecondInterval == 6
PassQuality == 3

Default == [interval |-> 0, repetitions |-> 0, ef |-> DefaultEf]

SuccessIntervals_NoSecond(interval, repetitions, ef) ==
    IF repetitions = 1 THEN {FirstInterval} ELSE IntervalTimesEf(interval, ef)

\* Lines 93-98: the interval of a success, repetitions being already
\* incremented and ef already updated.
SuccessIntervals(interval, repetitions, ef) ==
    IF repetitions = 1 THEN {FirstInterval}
    ELSE IF repetitions = 2 THEN {SecondInterval}
    ELSE IntervalTimesEf(interval, ef)

Lapse_KeepInterval(entry) ==
    [interval |-> entry.interval, repetitions |-> 0, ef |-> entry.ef]

Lapse_ResetEf(entry) ==
    [interval |-> FirstInterval, repetitions |-> 0, ef |-> DefaultEf]

Lapse_KeepReps(entry) ==
    [interval |-> FirstInterval, repetitions |-> entry.repetitions, ef |-> entry.ef]

\* Lines 87-89: a lapse.
Lapse(entry) == [interval |-> FirstInterval, repetitions |-> 0, ef |-> entry.ef]

\* The interval computed from the ease factor of before line 91.
SM2_OldEf(entry, quality) ==
    IF quality < PassQuality
    THEN {Lapse(entry)}
    ELSE {[interval |-> i, repetitions |-> entry.repetitions + 1, ef |-> ef] :
             <<ef, i>> \in UNION {{<<e, j>> :
                 j \in SuccessIntervals(entry.interval, entry.repetitions + 1, entry.ef)} :
                 e \in EfAfter(entry.ef, quality)}}

\* The interval chosen from repetitions of before line 92.
SM2_StaleReps(entry, quality) ==
    IF quality < PassQuality
    THEN {Lapse(entry)}
    ELSE {[interval |-> i, repetitions |-> entry.repetitions + 1, ef |-> ef] :
             <<ef, i>> \in UNION {{<<e, j>> :
                 j \in SuccessIntervals(entry.interval, entry.repetitions, e)} :
                 e \in EfAfter(entry.ef, quality)}}

\* Lines 83-98: the values of interval, repetitions and ef that line 101 can
\* store.
SM2(entry, quality) ==
    IF quality < PassQuality
    THEN {Lapse(entry)}
    ELSE {[interval |-> i, repetitions |-> entry.repetitions + 1, ef |-> ef] :
             <<ef, i>> \in UNION {{<<e, j>> :
                 j \in SuccessIntervals(entry.interval, entry.repetitions + 1, e)} :
                 e \in EfAfter(entry.ef, quality)}}

\* Line 82: scheduler.get(term, {"interval": 0, "repetitions": 0, "ef": 2.5}),
\* read at lines 83-85.
EntryOf(sched, term) ==
    LET e == IF term \in DOMAIN sched THEN sched[term] ELSE Default
    IN  [interval |-> e.interval, repetitions |-> e.repetitions, ef |-> e.ef]

(***************************************************************************)
(* Texts of clock readings, lines 100 and 233.                             *)
(***************************************************************************)
\* The digits of the date in "YYYY-MM-DD".
DateWidth == 8

\* The character "." of ".ffffff", as a number no digit has.
Dot == 0 - 1

\* n in exactly width digits, zeros in front.
Digits(n, width) == [i \in 1..width |-> (n \div (10 ^ (width - i))) % 10]

\* datetime.isoformat() of the reading t.
IsoFormat(t) ==
    Digits(t \div TicksPerDay, DateWidth)
       \o (IF t % TicksPerDay = 0 THEN <<>> ELSE <<Dot, t % TicksPerDay>>)

StrLeq_Strict(a, b) ==
    LET n == IF Len(a) < Len(b) THEN Len(a) ELSE Len(b)
        diff == {i \in 1..n : a[i] # b[i]}
    IN  IF diff = {} THEN Len(a) < Len(b) ELSE a[Min(diff)] < b[Min(diff)]

\* a <= b for two Python strings: the first place where they differ decides,
\* and a proper prefix is the smaller one.
StrLeq(a, b) ==
    LET n == IF Len(a) < Len(b) THEN Len(a) ELSE Len(b)
        diff == {i \in 1..n : a[i] # b[i]}
    IN  IF diff = {} THEN Len(a) <= Len(b) ELSE a[Min(diff)] < b[Min(diff)]

\* Line 100: (datetime.now() + timedelta(days=interval)).isoformat().
NextDue(interval) == IsoFormat(now + interval * TicksPerDay)

\* Lines 100-101: the entries that can be stored for the term.
NewEntries(sched, term, quality) ==
    {[interval |-> r.interval, repetitions |-> r.repetitions, ef |-> r.ef,
      next_due |-> NextDue(r.interval)] : r \in SM2(EntryOf(sched, term), quality)}

(***************************************************************************)
(* The catalog, lines 42-58, and the sidebar filters, lines 181-239.  A    *)
(* record of terms.json has "term" and "definition"; "tags" and "week" may *)
(* be missing: tags is then the empty set (e.get("tags", [])) and has_week *)
(* is FALSE.                                                               *)
(***************************************************************************)
Tags == {"econ", "law"}

Weeks == 0..MaxWeek

DefinitionOf(term) == <<"a", term>>

WithWeek(term, tags, week) ==
    [term |-> term, tags |-> tags, has_week |-> TRUE, week |-> week,
     definition |-> DefinitionOf(term)]

WithoutWeek(term, tags) ==
    [term |-> term, tags |-> tags, has_week |-> FALSE, week |-> 0,
     definition |-> DefinitionOf(term)]

Records(term) ==
    {WithWeek(term, tags, week) : tags \in SUBSET Tags, week \in Weeks}
       \cup {WithoutWeek(term, tags) : tags \in SUBSET Tags}

\* Two of the records of a term: all tags and no week, one tag and a week.
TwoRecords(term) == {WithoutWeek(term, Tags), WithWeek(term, {"law"}, MaxWeek)}

\* Catalogs of the two terms, in both orders.
Catalogs ==
    {<<a, b>> : a \in Records("A"), b \in TwoRecords("B")}
       \cup {<<b, a>> : a \in Records("A"), b \in TwoRecords("B")}

DefaultCatalog == <<WithWeek("A", {"econ"}, 0), WithWeek("B", {"law"}, MaxWeek)>>

\* Lines 181-186.
all_tags(list) == UNION {e.tags : e \in Range(list)}

\* Lines 188-192.
filtered_tags_terms(list, selected) ==
    IF selected # {}
    THEN SelectSeq(list, LAMBDA e : e.tags \cap selected # {})
    ELSE list

\* Line 218: entry.get("week", 0).
WeekOrZero(e) == IF e.has_week THEN e.week ELSE 0

all_weeks(list) == {WeekOrZero(e) : e \in Range(list)}

\* Line 219: "All", then str(w) for every week; int(str(w)) is w (line 226).
AllWeeks == [all |-> TRUE, week |-> 0]

WeekOption(w) == [all |-> FALSE, week |-> w]

week_options(list) == {AllWeeks} \cup {WeekOption(w) : w \in all_weeks(list)}

\* Line 227: e.get("week") == w; e.get("week") is None for a record with no
\* week, and None equals no integer.
WeekIs(e, w) == e.has_week /\ e.week = w

\* Lines 223-227.
week_filtered(list, selected) ==
    IF selected.all
    THEN list
    ELSE SelectSeq(list, LAMBDA e : WeekIs(e, selected.week))

\* Line 236: scheduler.get(e["term"], {}).get("next_due", "").
NextDueOf(sched, term) == IF term \in DOMAIN sched THEN sched[term].next_due ELSE <<>>

\* Lines 232-239, the clock reading t.
due_filtered(list, due, sched, t) ==
    IF due
    THEN SelectSeq(list, LAMBDA e : StrLeq(NextDueOf(sched, e.term), IsoFormat(t)))
    ELSE list

\* Lines 188-239: filtered_terms.
FilteredTerms(list, tags, week, due, sched, t) ==
    due_filtered(week_filtered(filtered_tags_terms(list, tags), week), due, sched, t)

\* Line 319: the terms the selectbox of the flashcard mode offers.
AvailableTerms == {filtered_terms[i].term : i \in DOMAIN filtered_terms}

(***************************************************************************)
(* The similarity score, lines 447-449.  A Python string is the sequence   *)
(* of its characters; the characters of the model are "s", "S", the        *)
(* letter sharp s (written "sz" here) and the space.                       *)
(***************************************************************************)
Chars == {"s", "S", "sz", " "}

Strings == UNION {[1..n -> Chars] : n \in 0..MaxLen}

\* str.isspace() of a character.
IsSpace(c) == c = " "

\* str.lower() of a character: "S" gives "s"; "s", sharp s and the space
\* are their own lower case.
LowerChar(c) == IF c = "S" THEN "s" ELSE c

lower(x) == [i \in DOMAIN x |-> LowerChar(x[i])]

Max(S) == CHOOSE x \in S : \A y \in S : x >= y

\* str.strip(): without the whitespace at both ends.
strip(x) ==
    LET keep == {i \in DOMAIN x : ~IsSpace(x[i])}
    IN  IF keep = {} THEN <<>> ELSE SubSeq(x, Min(keep), Max(keep))

\* The number of characters on which a[i+1..ahi] and b[j+1..bhi] agree from
\* their start.
RunLength(a, b, i, ahi, j, bhi) ==
    LET most == IF ahi - i < bhi - j THEN ahi - i ELSE bhi - j
    IN  Max({k \in 0..most : \A d \in 1..k : a[i + d] = b[j + d]})

\* SequenceMatcher.find_longest_match(alo, ahi, blo, bhi), no character being
\* junk: <<i, j, k>>, a[i+1..i+k] = b[j+1..j+k], k the greatest there is,
\* then i the least, then j the least; <<alo, blo, 0>> when nothing matches.
find_longest_match(a, b, alo, ahi, blo, bhi) ==
    LET runs == {<<i, j, RunLength(a, b, i, ahi, j, bhi)>> :
                    i \in alo..(ahi - 1), j \in blo..(bhi - 1)}
        best == Max({r[3] : r \in runs} \cup {0})
    IN  IF best = 0 THEN <<alo, blo, 0>>
        ELSE LET i == Min({r[1] : r \in {q \in runs : q[3] = best}})
                 j == Min({r[2] : r \in {q \in runs : q[3] = best /\ q[1] = i}})
             IN  <<i, j, best>>

RECURSIVE Matches(_, _, _, _, _, _)
\* SequenceMatcher.get_matching_blocks(): the sum of the sizes of the
\* blocks, the longest match first and then the matches on both its sides.
Matches(a, b, alo, ahi, blo, bhi) ==
    LET m == find_longest_match(a, b, alo, ahi, blo, bhi)
    IN  IF m[3] = 0 THEN 0
        ELSE m[3] + Matches(a, b, alo, m[1], blo, m[2])
                  + Matches(a, b, m[1] + m[3], ahi, m[2] + m[3], bhi)

\* The float 2.0 * num / den is written [num, den]; two of them are equal
\* when they are the same fraction.
Zero == [num |-> 0, den |-> 1]

One == [num |-> 1, den |-> 1]

\* SequenceMatcher(None, a, b).ratio(): 2.0 * matches / (len(a) + len(b)),
\* and 1.0 for two empty strings.  (The automatic junk of SequenceMatcher
\* needs a b of 200 characters or more.)
ratio(a, b) ==
    IF Len(a) + Len(b) = 0 THEN One
    ELSE [num |-> 2 * Matches(a, b, 0, Len(a), 0, Len(b)), den |-> Len(a) + Len(b)]

\* Lines 447-449: the ratio "Check My Answer" stores.
Score(answer, definition) == ratio(strip(lower(answer)), strip(lower(definition)))

\* Line 298: quiz_current_term is None.
NoTerm == WithoutWeek("", {})

\* Catalogs of one term, its definition being any string.
ScoreCatalogs == {<<[WithWeek("A", {}, 0) EXCEPT !.definition = d]>> : d \in Strings}

(***************************************************************************)
(* History.                                                                *)
(***************************************************************************)
NoCall == [op |-> "none", term |-> "", quality |-> 0, saved |-> "none", result |-> "ok"]

Call(op, term, quality, saved) ==
    [op |-> op, term |-> term, quality |-> quality, saved |-> saved,
     result |-> Result(saved)]

\* streak[term] counts the completed calls of schedule_next on the term with
\* quality 3 or more, since the latest completed one with a lower quality and
\* since the scheduler was last empty.
StreakAfter(term, quality) ==
    [streak EXCEPT ![term] = IF quality < 3 THEN 0 ELSE @ + 1]

\* fives[term] is n when the completed calls of schedule_next on the term
\* since the scheduler was last empty are n calls with quality 5, and
\* NotFives when some of them had another quality.
NotFives == 0 - 1

FivesAfter(term, quality) ==
    [fives EXCEPT ![term] =
        IF quality = 5 /\ @ # NotFives THEN @ + 1 ELSE NotFives]

\* durable is what the latest completed save has written; saved says that
\* there has been one.
NothingSaved == [saved |-> FALSE, data |-> EmptyProgress]

DurableAfter(data, outcome) ==
    IF outcome = "ok" THEN [saved |-> TRUE, data |-> data] ELSE durable

\* due_at[term] is the reading of the clock at the latest completed review
\* of the term plus the days of the interval it stored, NotReviewed when the
\* term has had no completed review since the scheduler was last empty.
NotReviewed == 0 - 1

\* draw is the term "Next Random Term" chose last, whether "Check My Answer"
\* has run since, how many times a classification button has called
\* schedule_next since, and the latest such button.
NoDraw == [term |-> "", checked |-> FALSE, calls |-> 0, button |-> "none"]

Drawn(term) == [term |-> term, checked |-> FALSE, calls |-> 0, button |-> "none"]

\* The state before the first run, the catalog apart.
InitProgress ==
    /\ file = FileAbsent
    /\ progress_data = EmptyProgress
    /\ known_terms = {}
    /\ scheduler = EmptyDict
    /\ now = 0
    /\ pc = "idle"
    /\ last = NoCall
    /\ streak = [t \in Terms |-> 0]
    /\ fives = [t \in Terms |-> 0]
    /\ calls = 0
    /\ durable = NothingSaved
    /\ due_at = [t \in Terms |-> NotReviewed]
    /\ selected_tags = {}
    /\ selected_week = AllWeeks
    /\ due_only = FALSE
    /\ quiz_current_term = NoTerm
    /\ quiz_correct_count = 0
    /\ quiz_total_asked = 0
    /\ quiz_checked = FALSE
    /\ quiz_ratio = Zero
    /\ user_answer = <<>>
    /\ draw = NoDraw

Init ==
    /\ InitProgress
    /\ terms_list = DefaultCatalog
    /\ filtered_terms = terms_list

\* A catalog of one term with any definition.
InitScore ==
    /\ InitProgress
    /\ terms_list \in ScoreCatalogs
    /\ filtered_terms = terms_list

\* Any catalog of the two terms.
InitSelect ==
    /\ InitProgress
    /\ terms_list \in Catalogs
    /\ filtered_terms = terms_list

(***************************************************************************)
(* Lines 61-66 and 72-74: the start of every run of the script.            *)
(***************************************************************************)
Loadable_Fallback(f) == TRUE

Loadable_NoExists(f) == Parses(f)

\* load_progress() returns: the file is missing, or json.load accepts it.
Loadable(f) == f.kind = "absent" \/ Parses(f)

\* What load_progress() returns then.
Loaded(f) == IF f.kind = "absent" THEN EmptyProgress ELSE JsonLoad(f.data)

\* Line 63, open(PROGRESS_PATH, "r"), is reached when the file exists: it
\* gives the file ("opened") or raises OSError ("unreadable").
OpenOutcomes(f) == IF f.kind = "absent" THEN {"opened"} ELSE {"opened", "unreadable"}

\* Neither load_progress nor line 72 has an except clause: an exception of
\* open or json.load ends the run, lines 72-74 binding nothing.
load_progress ==
    /\ pc = "idle"
    /\ \E opened \in OpenOutcomes(file) :
          IF opened = "opened" /\ Loadable(file)
          THEN LET data == Loaded(file)
               IN  /\ progress_data' = data
                   /\ known_terms' = Range(data.known_terms)
                   /\ scheduler' = data.scheduler
                   /\ filtered_terms' =
                         FilteredTerms(terms_list, selected_tags, selected_week, due_only,
                                       data.scheduler, now)
                   /\ pc' = "loaded"
                   /\ last' = Call("load_progress", "", 0, "ok")
          ELSE /\ pc' = "idle"
               /\ last' = [Call("load_progress", "", 0, opened) EXCEPT !.result = "error"]
               /\ UNCHANGED <<progress_data, known_terms, scheduler, filtered_terms>>
    /\ UNCHANGED <<file, now, streak, fives, calls, durable, due_at, terms_list, quiz, filters>>

(***************************************************************************)
(* schedule_next(term, quality), lines 77-103.                             *)
(***************************************************************************)
WithScheduler_Rebuilt(data, sched) == [known_terms |-> <<>>, scheduler |-> sched]

\* Line 102: progress_data after progress_data["scheduler"] = scheduler.
WithScheduler(data, sched) == [data EXCEPT !.scheduler = sched]

schedule_next(term, quality) ==
    /\ pc = "loaded"
    /\ \E entry \in NewEntries(scheduler, term, quality), outcome \in SaveOutcomes :
          LET sched == Put(scheduler, term, entry)
              data == WithScheduler(progress_data, sched)
          IN  /\ scheduler' = sched
              /\ progress_data' = data
              /\ file' = save_progress(file, data, outcome)
              /\ last' = Call("schedule_next", term, quality, outcome)
              /\ streak' = IF outcome = "ok" THEN StreakAfter(term, quality) ELSE streak
              /\ fives' = IF outcome = "ok" THEN FivesAfter(term, quality) ELSE fives
              /\ durable' = DurableAfter(data, outcome)
              /\ due_at' = IF outcome = "ok"
                           THEN [due_at EXCEPT ![term] = now + entry.interval * TicksPerDay]
                           ELSE due_at
    /\ calls' = calls + 1
    /\ pc' = "idle"
    /\ UNCHANGED <<known_terms, now, terms_list, filters, filtered_terms>>

\* Lines 401-407: "Set Next Review" with the slider's value.
SetNextReview ==
    /\ calls < MaxCalls
    /\ \E choice \in AvailableTerms, quality \in Qualities : schedule_next(choice, quality)
    /\ UNCHANGED quiz

\* schedule_next called with any integer.
ScheduleNextAny ==
    /\ calls < MaxCalls
    /\ \E term \in Terms, quality \in AnyQualities : schedule_next(term, quality)
    /\ UNCHANGED quiz

(***************************************************************************)
(* Lines 388-396: "Mark as Known" and "Mark as Unknown".                   *)
(***************************************************************************)
WithKnownTerms_Stale(data, lst) == data

\* Lines 390 and 395: progress_data after
\* progress_data["known_terms"] = list(known_terms).
WithKnownTerms(data, lst) == [data EXCEPT !.known_terms = lst]

SetKnown(op, choice, known) ==
    /\ pc = "loaded"
    /\ \E outcome \in SaveOutcomes, lst \in ListsOf(known) :
          LET data == WithKnownTerms(progress_data, lst)
          IN  /\ known_terms' = known
              /\ progress_data' = data
              /\ file' = save_progress(file, data, outcome)
              /\ last' = Call(op, choice, 0, outcome)
              /\ durable' = DurableAfter(data, outcome)
    /\ pc' = "idle"
    /\ UNCHANGED <<scheduler, now, streak, fives, calls, due_at, terms_list, quiz, filters,
                   filtered_terms>>

MarkKnown ==
    \E choice \in AvailableTerms : SetKnown("mark_known", choice, known_terms \cup {choice})

MarkUnknown ==
    \E choice \in AvailableTerms : SetKnown("mark_unknown", choice, known_terms \ {choice})

(***************************************************************************)
(* Lines 130-138: "Clear All Progress".  The button stands above the       *)
(* filters: when the save completes, lines 181-239 of the same run bind    *)
(* filtered_terms from the emptied scheduler.                              *)
(***************************************************************************)
Cleared_KeepKnown(data) == [data EXCEPT !.scheduler = EmptyDict]

\* Lines 133-134: progress_data after both keys are reassigned.
Cleared(data) == [data EXCEPT !.known_terms = <<>>, !.scheduler = EmptyDict]

ClearAllProgress ==
    /\ pc = "loaded"
    /\ \E outcome \in SaveOutcomes :
          LET data == Cleared(progress_data)
          IN  /\ known_terms' = {}
              /\ scheduler' = EmptyDict
              /\ progress_data' = data
              /\ file' = save_progress(file, data, outcome)
              /\ last' = Call("clear_all", "", 0, outcome)
              /\ streak' = IF outcome = "ok" THEN [t \in Terms |-> 0] ELSE streak
              /\ fives' = IF outcome = "ok" THEN [t \in Terms |-> 0] ELSE fives
              /\ durable' = DurableAfter(data, outcome)
              /\ due_at' = IF outcome = "ok" THEN [t \in Terms |-> NotReviewed] ELSE due_at
              /\ quiz_correct_count' = IF outcome = "ok" THEN 0 ELSE quiz_correct_count
              /\ quiz_total_asked' = IF outcome = "ok" THEN 0 ELSE quiz_total_asked
              /\ filtered_terms' =
                    IF outcome = "ok"
                    THEN FilteredTerms(terms_list, selected_tags, selected_week, due_only,
                                       EmptyDict, now)
                    ELSE filtered_terms
    /\ pc' = "idle"
    /\ UNCHANGED <<now, calls, terms_list, filters, quiz_current_term, quiz_checked,
                   quiz_ratio, user_answer, draw>>

\* Time passes: the clock reads one tick more.
Tick ==
    /\ now < MaxNow
    /\ now' = now + 1
    /\ UNCHANGED <<file, progress_data, known_terms, scheduler, pc, last, streak,
                   fives, calls, durable, due_at, terms_list, quiz, filters, filtered_terms>>

(***************************************************************************)
(* The widgets of the sidebar.  The user changes one between two runs.     *)
(***************************************************************************)
progress == <<file, progress_data, known_terms, scheduler, now, pc, last, streak, fives,
              calls, durable, due_at>>

\* Line 187: any of the tags of the catalog.
SelectTags ==
    /\ pc = "idle"
    /\ selected_tags' \in SUBSET all_tags(terms_list)
    /\ UNCHANGED <<progress, terms_list, quiz, selected_week, due_only, filtered_terms>>

\* Line 220: "All" or one of the weeks of the catalog.
SelectWeek ==
    /\ pc = "idle"
    /\ selected_week' \in week_options(terms_list)
    /\ UNCHANGED <<progress, terms_list, quiz, selected_tags, due_only, filtered_terms>>

\* Line 232.
SetDueOnly ==
    /\ pc = "idle"
    /\ due_only' \in BOOLEAN
    /\ UNCHANGED <<progress, terms_list, quiz, selected_tags, selected_week, filtered_terms>>

(***************************************************************************)
(* The quiz, lines 418-516.                                                *)
(***************************************************************************)
\* Lines 419-427 and 509-516: "Next Random Term", either button.
NextRandomTerm ==
    /\ pc = "loaded"
    /\ quiz_total_asked < MaxAsked
    /\ IF filtered_terms # <<>>
       THEN /\ quiz_current_term' \in Range(filtered_terms)
            /\ quiz_total_asked' = quiz_total_asked + 1
            /\ quiz_checked' = FALSE
            /\ quiz_ratio' = Zero
            /\ draw' = Drawn(quiz_current_term'.term)
       ELSE UNCHANGED <<quiz_current_term, quiz_total_asked, quiz_checked, quiz_ratio, draw>>
    /\ pc' = "idle"
    /\ last' = [Call("next_random_term", "", 0, "none") EXCEPT !.result = "ok"]
    /\ UNCHANGED <<file, progress_data, known_terms, scheduler, now, streak, fives, calls,
                   durable, due_at, terms_list, filters, filtered_terms, quiz_correct_count,
                   user_answer>>

\* Lines 430-451: "Check My Answer", the text area holding answer.
CheckMyAnswer ==
    /\ pc = "loaded"
    /\ quiz_current_term # NoTerm
    /\ \E answer \in Strings :
          /\ user_answer' = answer
          /\ quiz_ratio' = Score(answer, quiz_current_term.definition)
    /\ quiz_checked' = TRUE
    /\ draw' = [draw EXCEPT !.checked = TRUE]
    /\ pc' = "idle"
    /\ last' = [Call("check_answer", quiz_current_term.term, 0, "none") EXCEPT !.result = "ok"]
    /\ UNCHANGED <<file, progress_data, known_terms, scheduler, now, streak, fives, calls,
                   durable, due_at, terms_list, filters, filtered_terms, quiz_current_term,
                   quiz_correct_count, quiz_total_asked>>

\* Lines 462 and 488-505: a classification button, shown when there is a
\* current term (line 430) and quiz_checked holds.  Line 497, 501 or 505 sets
\* quiz_current_term to None when schedule_next returns; when save_progress
\* raises, the run ends before it.
Classify(button, quality) ==
    /\ quiz_current_term # NoTerm
    /\ quiz_checked
    /\ calls < MaxQuizCalls
    /\ schedule_next(quiz_current_term.term, quality)
    /\ quiz_current_term' = IF Result(last'.saved) = "ok" THEN NoTerm ELSE quiz_current_term
    /\ draw' = [draw EXCEPT !.calls = @ + 1, !.button = button]
    /\ UNCHANGED <<quiz_total_asked, quiz_checked, quiz_ratio, user_answer>>

\* Lines 493-497: line 494 counts the answer before line 495 calls
\* schedule_next.
FullyCorrect ==
    /\ Classify("fully_correct", 5)
    /\ quiz_correct_count' = quiz_correct_count + 1

\* Lines 499-501.
PartiallyCorrect ==
    /\ Classify("partially_correct", 3)
    /\ UNCHANGED quiz_correct_count

\* Lines 503-505.
Incorrect ==
    /\ Classify("incorrect", 0)
    /\ UNCHANGED quiz_correct_count

\* Lines 125-128: "Reset Quiz Counters".
ResetQuizCounters ==
    /\ pc = "loaded"
    /\ quiz_correct_count' = 0
    /\ quiz_total_asked' = 0
    /\ pc' = "idle"
    /\ last' = [Call("reset_quiz_counters", "", 0, "none") EXCEPT !.result = "ok"]
    /\ UNCHANGED <<file, progress_data, known_terms, scheduler, now, streak, fives, calls,
                   durable, due_at, terms_list, filters, filtered_terms, quiz_current_term,
                   quiz_checked, quiz_ratio, user_answer, draw>>

(***************************************************************************)
(* Spec: the handlers of the flashcard mode, on two terms, the clock       *)
(* standing still and the filters of the sidebar left as they start        *)
(* (SpecClock lets time pass, SpecSelect changes the filters).             *)
(***************************************************************************)
Next ==
    \/ load_progress
    \/ SetNextReview
    \/ MarkKnown
    \/ MarkUnknown
    \/ ClearAllProgress

Spec == Init /\ [][Next]_vars

(***************************************************************************)
(* SpecApi: as Spec, schedule_next being called with any integer.          *)
(***************************************************************************)
NextApi ==
    \/ load_progress
    \/ ScheduleNextAny
    \/ MarkKnown
    \/ MarkUnknown
    \/ ClearAllProgress

SpecApi == Init /\ [][NextApi]_vars

(***************************************************************************)
(* SpecDeep: long runs of reviews of one term.                             *)
(***************************************************************************)
DeepTerm == "A"

DeepReview ==
    /\ calls < MaxDeepCalls
    /\ DeepTerm \in AvailableTerms
    /\ \E quality \in Qualities : schedule_next(DeepTerm, quality)
    /\ UNCHANGED quiz

NextDeep ==
    \/ load_progress
    \/ DeepReview

SpecDeep == Init /\ [][NextDeep]_vars

(***************************************************************************)
(* SpecClock: reviews and the due filter while time passes.                *)
(***************************************************************************)
ClockReview ==
    /\ calls < MaxClockCalls
    /\ \E choice \in AvailableTerms, quality \in Qualities : schedule_next(choice, quality)
    /\ UNCHANGED quiz

NextClock ==
    \/ load_progress
    \/ ClockReview
    \/ SetDueOnly
    \/ Tick

SpecClock == Init /\ [][NextClock]_vars

(***************************************************************************)
(* SpecSelect: the filters of the sidebar, on any catalog of the two       *)
(* terms.                                                                  *)
(***************************************************************************)
SelectReview ==
    /\ calls < MaxSelectCalls
    /\ \E choice \in AvailableTerms, quality \in Qualities : schedule_next(choice, quality)
    /\ UNCHANGED quiz

NextSelect ==
    \/ load_progress
    \/ SelectReview
    \/ SelectTags
    \/ SelectWeek
    \/ SetDueOnly

SpecSelect == InitSelect /\ [][NextSelect]_vars

(***************************************************************************)
(* SpecScore: the quiz on a catalog of one term with any definition.       *)
(***************************************************************************)
NextScore ==
    \/ load_progress
    \/ NextRandomTerm
    \/ CheckMyAnswer

SpecScore == InitScore /\ [][NextScore]_vars

(***************************************************************************)
(* SpecQuiz: the quiz on two terms, with its classification buttons and    *)
(* the reset buttons of the sidebar.                                       *)
(***************************************************************************)
NextQuiz ==
    \/ load_progress
    \/ NextRandomTerm
    \/ CheckMyAnswer
    \/ FullyCorrect
    \/ PartiallyCorrect
    \/ Incorrect
    \/ ResetQuizCounters
    \/ ClearAllProgress

SpecQuiz == Init /\ [][NextQuiz]_vars

(***************************************************************************)
(* Properties.                                                             *)
(***************************************************************************)
\* The term of the step, when the step is a call of schedule_next.
IsScheduleStep == pc = "loaded" /\ pc' = "idle" /\ last'.op = "schedule_next"

\* The memory of the run is bound and no exception has left it half updated.
MemorySound == pc = "loaded" \/ last.result = "ok"

FileScheduler == Loaded(file).scheduler

\* C1: after any sequence of schedule_next calls with quality in 0..5 from an
\* empty scheduler, every ease factor stored, in memory and in progress.json,
\* is at least 1.3.
C1_EaseAtLeastMin ==
    /\ \A t \in DOMAIN scheduler : FloatGeq(scheduler[t].ef, Float(130, FALSE))
    /\ Parses(file) =>
          \A t \in DOMAIN FileScheduler : FloatGeq(FileScheduler[t].ef, Float(130, FALSE))

\* C1: line 91 has replaced a lower sum by 1.3.
C1_Witness ==
    /\ last.op = "schedule_next"
    /\ last.quality = 3
    /\ last.result = "ok"
    /\ scheduler[last.term].ef = Float(130, FALSE)

\* C2: whatever the entry of the term was (none included), schedule_next with
\* a quality below 3 leaves the term with repetitions 0 and interval 1.
C2_LapseResets ==
    [][(IsScheduleStep /\ last'.quality < 3) =>
          /\ last'.term \in DOMAIN scheduler'
          /\ scheduler'[last'.term].repetitions = 0
          /\ scheduler'[last'.term].interval = 1]_vars

\* C2: a lapse of a term that stood at two successes and interval 6.
C2_Witness ==
    /\ last.op = "schedule_next"
    /\ last.quality < 3
    /\ last.result = "ok"
    /\ scheduler[last.term].ef.cent = 270
    /\ scheduler[last.term].repetitions = 0

\* C3: schedule_next with a quality below 3 stores the ease factor the term
\* had before the call, 2.5 if it had no entry.
C3_LapseKeepsEase ==
    [][(IsScheduleStep /\ last'.quality < 3) =>
          scheduler'[last'.term].ef = EntryOf(scheduler, last'.term).ef]_vars

\* C3: a lapse of a term whose ease factor is no longer 2.5.
C3_Witness ==
    /\ last.op = "schedule_next"
    /\ last.quality < 3
    /\ last.result = "ok"
    /\ scheduler[last.term].ef.cent < 250
    /\ scheduler[last.term].interval = 1

\* C4: schedule_next with a quality of 3 or more adds one to repetitions and
\* sets interval to 1 when repetitions becomes 1, to 6 when it becomes 2, and
\* otherwise to int(old interval * ef), ef being the ease factor stored by
\* this same call.
C4_SuccessAdvances ==
    [][(IsScheduleStep /\ last'.quality >= 3) =>
          LET old == EntryOf(scheduler, last'.term)
              new == scheduler'[last'.term]
          IN  /\ new.repetitions = old.repetitions + 1
              /\ new.repetitions = 1 => new.interval = 1
              /\ new.repetitions = 2 => new.interval = 6
              /\ new.repetitions > 2 =>
                    new.interval \in IntervalTimesEf(old.interval, new.ef)]_vars

\* C4: a fourth success in a row, after which the ease factor has changed.
C4_Witness ==
    /\ last.op = "schedule_next"
    /\ last.quality = 3
    /\ last.result = "ok"
    /\ scheduler[last.term].repetitions = 4
    /\ scheduler[last.term].interval > 6

\* C5: the repetitions stored for a term, in memory and in progress.json, is
\* the number of completed schedule_next calls with quality 3 or more on the
\* term since its latest completed call with a lower quality, or since the
\* scheduler was last empty.
C5_RepetitionsCountStreak ==
    /\ MemorySound => \A t \in Terms : EntryOf(scheduler, t).repetitions = streak[t]
    /\ Loadable(file) => \A t \in Terms : EntryOf(FileScheduler, t).repetitions = streak[t]

\* C5: two successes in a row that follow a lapse of the same term.
C5_Witness ==
    /\ calls = 3
    /\ last.op = "schedule_next"
    /\ last.result = "ok"
    /\ streak[last.term] = 2
    /\ scheduler[last.term].ef.cent < 250

\* C6: from a fresh state, four calls of schedule_next(X, 5) in a row give the
\* intervals 1, 6, int(6 * 2.8) and int(16 * 2.9), each product taken with the
\* ease factor the same call has stored, and the ease factors 2.6, 2.7, 2.8
\* and 2.9: at least 1.3 and never decreasing.
C6_FourFives ==
    \A t \in Terms :
       LET e == EntryOf(scheduler, t)
       IN  MemorySound =>
              /\ fives[t] = 1 => e.interval = 1 /\ e.ef.cent = 260
              /\ fives[t] = 2 => e.interval = 6 /\ e.ef.cent = 270
              /\ fives[t] = 3 => e.interval = (6 * 280) \div 100 /\ e.ef.cent = 280
              /\ fives[t] = 4 =>
                    e.interval = (((6 * 280) \div 100) * 290) \div 100 /\ e.ef.cent = 290
              /\ fives[t] >= 1 => e.repetitions = fives[t] /\ FloatGeq(e.ef, Float(130, FALSE))

\* C6: the fourth of the four calls has completed.
C6_Witness ==
    /\ last.op = "schedule_next"
    /\ last.result = "ok"
    /\ fives[last.term] = 4
    /\ calls = 4

\* C7: after every completed schedule_next, Mark as Known, Mark as Unknown
\* and Clear All Progress, the known_terms of progress.json, taken as a set,
\* and its scheduler are known_terms and scheduler.
C7_WriteThrough ==
    (last.op \in {"schedule_next", "mark_known", "mark_unknown", "clear_all"}
        /\ last.result = "ok") =>
       /\ Parses(file)
       /\ Range(Loaded(file).known_terms) = known_terms
       /\ FileScheduler = scheduler

\* C7: a term is unmarked while another stays known and a review is stored.
C7_Witness ==
    /\ last.op = "mark_unknown"
    /\ last.result = "ok"
    /\ Cardinality(known_terms) = 1
    /\ DOMAIN scheduler # {}

\* C8: schedule_next with a quality outside 0..5 ends in an error and leaves
\* scheduler and progress.json as they were.
C8_InvalidQualityRejected ==
    [][(IsScheduleStep /\ last'.quality \notin 0..5) =>
          /\ last'.result = "error"
          /\ scheduler' = scheduler
          /\ file' = file]_vars

\* C9: whatever happens to the save of schedule_next, loading progress.json
\* afterwards succeeds and gives either what it gave before the call or what
\* the call was saving.
C9_AtomicUpdate ==
    [][IsScheduleStep =>
          /\ Loadable(file')
          /\ Loaded(file') \in {Loaded(file), progress_data'}]_vars

\* C10: a save of schedule_next that fails ends the call in an error, so the
\* call never ends well with a scheduler that differs from the one in
\* progress.json.
C10_WriteFailurePropagates ==
    last.op = "schedule_next" =>
       /\ last.saved # "ok" => last.result = "error"
       /\ last.result = "ok" => Parses(file) /\ FileScheduler = scheduler

\* C10: open() has failed: the call ends in an error, scheduler holding an
\* entry progress.json does not hold.
C10_Witness ==
    /\ last.op = "schedule_next"
    /\ last.saved = "open_failed"
    /\ last.result = "error"
    /\ Loadable(file)
    /\ FileScheduler # scheduler

\* The step is the start of a run that has loaded progress.json.
IsLoadStep == pc = "idle" /\ pc' = "loaded"

\* C11: a start of the script that finds progress.json corrupt (truncated or
\* partial) or unreadable ends in an error; and once a save has completed,
\* a start that ends well binds the known terms and the scheduler of the
\* latest completed save, never empty ones in their place.
C11_CorruptLoadFails ==
    last.op = "load_progress" =>
       /\ file.kind \in {"truncated", "partial"} => last.result = "error" /\ pc = "idle"
       /\ last.saved = "unreadable" => last.result = "error" /\ pc = "idle"
       /\ (last.result = "ok" /\ durable.saved) =>
             /\ known_terms = Range(durable.data.known_terms)
             /\ scheduler = durable.data.scheduler

\* C11: progress with a review had been saved, a later save has left the
\* file truncated, and the start of the next run has ended in an error.
C11_Witness ==
    /\ last.op = "load_progress"
    /\ last.result = "error"
    /\ file.kind = "truncated"
    /\ durable.saved
    /\ DOMAIN durable.data.scheduler # {}

\* C12: a start of the script that finds no progress.json ends well, with
\* no known term and an empty scheduler.
C12_AbsentLoadsEmpty ==
    (last.op = "load_progress" /\ file.kind = "absent") =>
       /\ last.result = "ok"
       /\ pc = "loaded"
       /\ progress_data = EmptyProgress
       /\ known_terms = {}
       /\ scheduler = EmptyDict

\* C12: the file is still missing after a review whose save could not open
\* it, and the next start has bound the empty state again.
C12_Witness ==
    /\ last.op = "load_progress"
    /\ last.result = "ok"
    /\ file.kind = "absent"
    /\ calls > 0
    /\ scheduler = EmptyDict

\* C16: after a completed Clear All Progress, known_terms and scheduler are
\* empty in memory and in progress.json, every term of the catalog passes
\* the due filter, and the entry the next schedule_next reads for any term
\* is the default one (interval 0, repetitions 0, ef 2.5).
C16_ClearAllEmpties ==
    (last.op = "clear_all" /\ last.result = "ok") =>
       /\ known_terms = {}
       /\ scheduler = EmptyDict
       /\ Parses(file)
       /\ Loaded(file) = EmptyProgress
       /\ due_filtered(terms_list, TRUE, FileScheduler, now) = terms_list
       /\ \A t \in Terms : EntryOf(FileScheduler, t) = Default

\* C16: Clear All Progress has completed after reviews.
C16_Witness ==
    /\ last.op = "clear_all"
    /\ last.result = "ok"
    /\ calls = MaxCalls
    /\ file = FileJson(EmptyDocument)

\* C17: Mark as Known and Mark as Unknown leave scheduler as it was, and
\* schedule_next leaves known_terms as it was, in memory and, when the save
\* completes, in progress.json.
C17_KnownAndScheduleIndependent ==
    [][/\ (pc = "loaded" /\ last'.op \in {"mark_known", "mark_unknown"}) =>
             /\ scheduler' = scheduler
             /\ last'.result = "ok" => Loaded(file').scheduler = Loaded(file).scheduler
       /\ IsScheduleStep =>
             /\ known_terms' = known_terms
             /\ last'.result = "ok" =>
                   Range(Loaded(file').known_terms) = Range(Loaded(file).known_terms)]_vars

\* C17: after a review, a term is known and has no entry while another has
\* an entry and is not known.
C17_Witness ==
    /\ last.op = "schedule_next"
    /\ last.result = "ok"
    /\ \E t \in known_terms : t \notin DOMAIN scheduler
    /\ \E t \in DOMAIN scheduler : t \notin known_terms
    /\ Range(Loaded(file).known_terms) = known_terms

\* C18: after a completed save_progress(data), load_progress() on the file
\* returns a dict equal to data: the same list of known terms and the same
\* interval, repetitions, ef and next_due for the same terms.
C18_SaveLoadRoundTrip ==
    last.saved = "ok" =>
       /\ Loadable(file)
       /\ Loaded(file) = progress_data
       /\ Loaded(file) = durable.data

\* C18: the data saved holds two known terms and an ease factor whose repr
\* is not its two decimal places.
C18_Witness ==
    /\ last.saved = "ok"
    /\ Len(progress_data.known_terms) = 2
    /\ \E t \in DOMAIN progress_data.scheduler : progress_data.scheduler[t].ef.under

\* C20: schedule_next(term, quality) leaves every other term as it was, in
\* memory and, when the save completes, in progress.json: with an entry or
\* without one, and with the same interval, repetitions, ef and next_due.
C20_OtherTermsUntouched ==
    [][IsScheduleStep =>
          \A t \in Terms \ {last'.term} :
             /\ t \in DOMAIN scheduler' <=> t \in DOMAIN scheduler
             /\ t \in DOMAIN scheduler => scheduler'[t] = scheduler[t]
             /\ last'.result = "ok" =>
                   /\ t \in DOMAIN Loaded(file').scheduler <=> t \in DOMAIN Loaded(file).scheduler
                   /\ t \in DOMAIN Loaded(file).scheduler =>
                         Loaded(file').scheduler[t] = Loaded(file).scheduler[t]]_vars

\* C20: a review of a term has completed while the other term has an entry.
C20_Witness ==
    /\ last.op = "schedule_next"
    /\ last.result = "ok"
    /\ Terms \ {last.term} # {}
    /\ Terms \ {last.term} \subseteq DOMAIN scheduler
    /\ FileScheduler = scheduler

\* The records that pass the tag filter and the week filter of the run.
PassTagAndWeek == Range(week_filtered(filtered_tags_terms(terms_list, selected_tags),
                                      selected_week))

\* The term is due at the reading of the clock: it has had no review, or the
\* days of the interval of its latest review have passed since that review.
IsDue(term) == due_at[term] = NotReviewed \/ due_at[term] <= now

\* C13: with "Show Only Due Terms" ticked, a record that passes the tag and
\* week filters is in filtered_terms exactly when its term has no entry in
\* scheduler or its next_due is not later than now: a term reviewed at t
\* with interval i is left out at every reading in [t, t + i days) and is in
\* at every reading from t + i days on, until it is reviewed again.
C13_DueOnlySelectsDue ==
    [][(IsLoadStep /\ due_only) =>
          \A e \in PassTagAndWeek :
             /\ e \in Range(filtered_terms') <=> IsDue(e.term)
             /\ e.term \notin DOMAIN scheduler' => e \in Range(filtered_terms')]_vars

\* C13: with the box ticked, a term reviewed earlier is in filtered_terms at
\* the very reading its next_due names, and a term reviewed later is left
\* out.
C13_Witness ==
    /\ pc = "loaded"
    /\ last.op = "load_progress"
    /\ due_only
    /\ \E t \in AvailableTerms : due_at[t] = now /\ now % TicksPerDay # 0
    /\ \E t \in Terms \ AvailableTerms : due_at[t] > now

\* The record satisfies the criteria of the run, a record with no week being
\* of week 0.
Satisfies(e) ==
    /\ selected_tags = {} \/ e.tags \cap selected_tags # {}
    /\ selected_week.all \/ WeekOrZero(e) = selected_week.week
    /\ ~due_only \/ IsDue(e.term)

\* C14: filtered_terms holds exactly the records of the catalog that satisfy
\* every active criterion (no tag selected or a selected tag among the
\* record's; week "All" or the record's week; due filter off or the term
\* due), each once, whatever the order of the catalog.
C14_SelectExactly ==
    [][IsLoadStep =>
          /\ Range(filtered_terms') = {e \in Range(terms_list) : Satisfies(e)}
          /\ Len(filtered_terms') = Cardinality(Range(filtered_terms'))]_vars

\* C15: when week 0 is selected, every record with no week field that passes
\* the tag filter and the due filter is in filtered_terms.
C15_NoWeekIsWeekZero ==
    [][(IsLoadStep /\ selected_week = WeekOption(0)) =>
          \A e \in Range(terms_list) :
             (/\ ~e.has_week
              /\ selected_tags = {} \/ e.tags \cap selected_tags # {}
              /\ ~due_only \/ IsDue(e.term)) => e \in Range(filtered_terms')]_vars

\* str.upper() of a character; that of sharp s is the two characters "SS".
UpperChar(c) == IF c = "s" THEN <<"S">> ELSE IF c = "sz" THEN <<"S", "S">> ELSE <<c>>

\* x with every letter in upper case, as str.upper() gives it.
upper(x) == IF x = <<>> THEN <<>>
            ELSE LET n == Len(x)
                     at == [i \in 1..n |-> UpperChar(x[i])]
                 IN  IF n = 1 THEN at[1] ELSE IF n = 2 THEN at[1] \o at[2]
                     ELSE at[1] \o at[2] \o at[3]

\* x with its letter case changed, or with whitespace added at its ends.
Variants(x) == {upper(x), lower(x), <<" ">> \o x, x \o <<" ">>, <<" ">> \o x \o <<" ">>}

SameRatio(p, q) == p.num * q.den = q.num * p.den

\* C19: the ratio of an answer equal to the definition is 1.0, and the ratio
\* stays the same when the letter case of the answer or of the definition
\* is changed or whitespace is added at its ends.
C19_ScoreNormalised ==
    quiz_checked =>
       LET definition == quiz_current_term.definition
       IN  /\ user_answer = definition => SameRatio(quiz_ratio, One)
           /\ \A v \in Variants(user_answer) : SameRatio(Score(v, definition), quiz_ratio)
           /\ \A v \in Variants(definition) : SameRatio(Score(user_answer, v), quiz_ratio)

\* The entry has interval >= 1, interval 1 when repetitions is 0 or 1, and
\* interval >= 6 when repetitions is 2 or more.
IntervalFits(e) ==
    /\ e.interval >= 1
    /\ e.repetitions <= 1 => e.interval = 1
    /\ e.repetitions >= 2 => e.interval >= 6

\* C21: after every step, every entry of scheduler and of progress.json has
\* interval >= 1, interval 1 when its repetitions is at most 1 and interval
\* >= 6 when its repetitions is at least 2; and a schedule_next that brings
\* repetitions to 3 or more stores an interval greater than the one the
\* term had.
C21_IntervalsGrow ==
    [][/\ \A t \in DOMAIN scheduler' : IntervalFits(scheduler'[t])
       /\ Parses(file') =>
             \A t \in DOMAIN Loaded(file').scheduler : IntervalFits(Loaded(file').scheduler[t])
       /\ (IsScheduleStep /\ scheduler'[last'.term].repetitions >= 3) =>
             scheduler'[last'.term].interval > EntryOf(scheduler, last'.term).interval]_vars

\* C21: a success with the least ease factor there is, 1.3, has brought
\* repetitions beyond 3.
C21_Witness ==
    /\ last.op = "schedule_next"
    /\ last.result = "ok"
    /\ last.quality >= 3
    /\ scheduler[last.term].repetitions > 3
    /\ scheduler[last.term].ef = MinEf
    /\ FileScheduler[last.term].interval > 6

\* The score shown at line 524 has no more correct answers than questions.
CountWithinAsked == quiz_correct_count <= quiz_total_asked

\* The latest drawn term has had at most one call of schedule_next.
OneCallPerDraw == draw.calls <= 1

\* A call of schedule_next is for the latest drawn term, "Check My Answer"
\* having run since the draw.
CallAfterCheck ==
    last.op = "schedule_next" => last.term = draw.term /\ draw.checked

\* The quality a call of schedule_next was given is 5, 3 or 0 as the button
\* was "Fully Correct", "Partially Correct" or "Incorrect".
QualityOfButton ==
    last.op = "schedule_next" =>
       \/ draw.button = "fully_correct" /\ last.quality = 5
       \/ draw.button = "partially_correct" /\ last.quality = 3
       \/ draw.button = "incorrect" /\ last.quality = 0

\* C22: whatever the buttons of the quiz and of the sidebar that were
\* pressed, quiz_correct_count is at most quiz_total_asked, a drawn term has
\* had at most one call of schedule_next, and such a call comes after
\* "Check My Answer" for that term, with quality 5, 3 or 0 for "Fully
\* Correct", "Partially Correct" and "Incorrect".
C22_QuizCounts ==
    /\ CountWithinAsked
    /\ OneCallPerDraw
    /\ CallAfterCheck
    /\ QualityOfButton

====
